---- MODULE Spec2Model ----
(***************************************************************************)
(* A model of the OCR problem solver: the problem-type classifier and the *)
(* request loop of src/專題.py, the equation normalisation and error        *)
(* handling of src/math_solver.py, and the text solver of                  *)
(* src/nlp_solver.py with the Gemini calls of src/ocr_module.py.           *)
(*                                                                         *)
(* A Python string is a sequence of characters.  An ASCII character is    *)
(* the one-character string holding it; any other character, and the     *)
(* quote, backslash and backquote, is named by its code point, "u4E2D"    *)
(* for U+4E2D.                                                             *)
(***************************************************************************)
EXTENDS Integers, Sequences, FiniteSets, TLC

(***************************************************************************)
(* Characters and their Python classes.                                    *)
(***************************************************************************)

\* The printable ASCII characters in code-point order, U+0020 .. U+007E.
Ascii ==
    << " ", "!", "u0022", "#", "$", "%", "&", "'", "(", ")", "*", "+", ",", "-",
       ".", "/", "0", "1", "2", "3", "4", "5", "6", "7", "8", "9", ":", ";",
       "<", "=", ">", "?", "@", "A", "B", "C", "D", "E", "F", "G", "H", "I",
       "J", "K", "L", "M", "N", "O", "P", "Q", "R", "S", "T", "U", "V", "W",
       "X", "Y", "Z", "[", "u005C", "]", "^", "_", "u0060", "a", "b", "c", "d", "e",
       "f", "g", "h", "i", "j", "k", "l", "m", "n", "o", "p", "q", "r", "s",
       "t", "u", "v", "w", "x", "y", "z", "{", "|", "}", "~" >>

\* The characters outside printable ASCII that the model's texts use, each
\* with its code point: tab, newline, the degree sign, the ideographic full
\* stop, Hiragana A, the Han characters of the error messages, Hangul HAN,
\* and the fullwidth colon.
OtherChars ==
    { <<"\t", 9>>, <<"\n", 10>>, <<"u00B0", 176>>, <<"u3002", 12290>>,
      <<"u3042", 12354>>, <<"u4E2D", 20013>>, <<"u4ECD", 20173>>,
      <<"u503C", 20540>>, <<"u53EB", 21483>>, <<"u547C", 21628>>,
      <<"u5728", 22312>>, <<"u5B9A", 23450>>, <<"u6216", 25110>>,
      <<"u6548", 25928>>, <<"u6642", 26178>>, <<"u6709", 26377>>,
      <<"u672A", 26410>>, <<"u70BA", 28858>>, <<"u751F", 29983>>,
      <<"u767C", 30332>>, <<"u7684", 30340>>, <<"u8A2D", 35373>>,
      <<"u8AA4", 35492>>, <<"u8ACB", 35531>>, <<"u8D85", 36229>>,
      <<"u91D1", 37329>>, <<"u932F", 37679>>, <<"u9470", 38000>>,
      <<"u9810", 38928>>, <<"uD55C", 54620>>, <<"uFF1A", 65306>> }

CharSet == { Ascii[i] : i \in 1..Len(Ascii) } \cup { p[1] : p \in OtherChars }

\* ord(c)
CodePoint ==
    [ c \in CharSet |->
        IF \E p \in OtherChars : p[1] = c
        THEN (CHOOSE p \in OtherChars : p[1] = c)[2]
        ELSE 31 + (CHOOSE i \in 1..Len(Ascii) : Ascii[i] = c) ]

\* c.isspace()
IsSpace(c) == c \in {" ", "\t", "\n"}

\* c.isdigit()
IsDigit(c) == CodePoint[c] >= 48 /\ CodePoint[c] <= 57

\* _is_cjk(char): the five code-point ranges.
IsCjk(c) ==
    LET n == CodePoint[c] IN
        \/ (19968 <= n /\ n <= 40959)
        \/ (13312 <= n /\ n <= 19903)
        \/ (44032 <= n /\ n <= 55215)
        \/ (12352 <= n /\ n <= 12447)
        \/ (12448 <= n /\ n <= 12543)

\* c.isalpha(): the ASCII letters and, among the other characters of the
\* model, the kana, Han and Hangul letters (U+3040 and above, but not the
\* fullwidth colon).
IsAlpha(c) ==
    LET n == CodePoint[c] IN
        \/ (65 <= n /\ n <= 90)
        \/ (97 <= n /\ n <= 122)
        \/ (12352 <= n /\ n <= 55215)

\* c.lower()
LowerChar(c) ==
    LET n == CodePoint[c] IN
        IF 65 <= n /\ n <= 90 THEN Ascii[n + 32 - 31] ELSE c

(***************************************************************************)
(* String methods.                                                         *)
(***************************************************************************)

SetMin(S) == CHOOSE m \in S : \A k \in S : m <= k
SetMax(S) == CHOOSE m \in S : \A k \in S : m >= k

\* sum(1 for char in s if char in cs)
CountIn(s, cs) == Cardinality({ i \in 1..Len(s) : s[i] \in cs })

\* s.lower()
Lower(s) == [ i \in 1..Len(s) |-> LowerChar(s[i]) ]

\* s.isspace(): true of a non-empty string of whitespace only.
IsSpaceStr(s) == Len(s) > 0 /\ \A i \in 1..Len(s) : IsSpace(s[i])

\* sub in s
Contains(s, sub) ==
    \E i \in 0..(Len(s) - Len(sub)) : \A j \in 1..Len(sub) : s[i + j] = sub[j]

\* s.endswith(suf)
EndsWith(s, suf) ==
    /\ Len(suf) <= Len(s)
    /\ \A j \in 1..Len(suf) : s[Len(s) - Len(suf) + j] = suf[j]

\* s.startswith(pre)
StartsWith(s, pre) ==
    /\ Len(pre) <= Len(s)
    /\ \A j \in 1..Len(pre) : s[j] = pre[j]

\* s.strip()
Strip(s) ==
    LET ns == { i \in 1..Len(s) : ~IsSpace(s[i]) } IN
        IF ns = {} THEN <<>> ELSE SubSeq(s, SetMin(ns), SetMax(ns))

\* s.split()[0] if s.split() else ""
FirstWord(s) ==
    LET ns == { i \in 1..Len(s) : ~IsSpace(s[i]) } IN
        IF ns = {} THEN <<>>
        ELSE LET b  == SetMin(ns)
                 sp == { i \in b..Len(s) : IsSpace(s[i]) }
                 e  == IF sp = {} THEN Len(s) ELSE SetMin(sp) - 1
             IN  SubSeq(s, b, e)

\* len(s.split())
WordCount(s) ==
    Cardinality({ i \in 1..Len(s) :
                    ~IsSpace(s[i]) /\ (i = 1 \/ IsSpace(s[i - 1])) })

(***************************************************************************)
(* determine_problem_type, src/專題.py.                                     *)
(***************************************************************************)

very_bad_chars == {"u00B0", "@", ":", "$"}

question_starters ==
    { <<"w", "h", "a", "t">>,
      <<"w", "h", "o">>,
      <<"w", "h", "e", "r", "e">>,
      <<"w", "h", "e", "n">>,
      <<"w", "h", "y">>,
      <<"h", "o", "w">>,
      <<"i", "s">>,
      <<"a", "r", "e">>,
      <<"d", "o">>,
      <<"d", "o", "e", "s">>,
      <<"d", "i", "d">>,
      <<"w", "a", "s">>,
      <<"w", "e", "r", "e">>,
      <<"c", "a", "n">>,
      <<"c", "o", "u", "l", "d">>,
      <<"w", "i", "l", "l">>,
      <<"w", "o", "u", "l", "d">>,
      <<"s", "h", "o", "u", "l", "d">>,
      <<"m", "a", "y">>,
      <<"m", "i", "g", "h", "t">>,
      <<"w", "h", "i", "c", "h">>,
      <<"l", "i", "s", "t">>,
      <<"d", "e", "f", "i", "n", "e">>,
      <<"e", "x", "p", "l", "a", "i", "n">>,
      <<"d", "e", "s", "c", "r", "i", "b", "e">>,
      <<"c", "a", "l", "c", "u", "l", "a", "t", "e">>,
      <<"n", "a", "m", "e">>,
      <<"t", "e", "l", "l">> }

explicit_math_phrases ==
    { <<"s", "o", "l", "v", "e", " ", "f", "o", "r">>,
      <<"f", "i", "n", "d", " ", "x">>,
      <<"f", "i", "n", "d", " ", "t", "h", "e", " ", "v", "a", "l", "u", "e",
        " ", "o", "f", " ", "x">>,
      <<"d", "e", "r", "i", "v", "a", "t", "i", "v", "e", " ", "o", "f">>,
      <<"i", "n", "t", "e", "g", "r", "a", "l", " ", "o", "f">>,
      <<"f", "a", "c", "t", "o", "r", "i", "z", "e">>,
      <<"s", "i", "m", "p", "l", "i", "f", "y", ":">> }

math_operators == {"+", "-", "*", "/", "^"}

valid_arithmetic_chars ==
    {"0", "1", "2", "3", "4", "5", "6", "7", "8", "9",
     "+", "-", "*", "/", "^", "(", ")", ".", " "}

\* The characters counted by num_math_symbols: a digit or one of "+-*/=^().".
IsMathSymbol(c) == IsDigit(c) \/ c \in {"+", "-", "*", "/", "=", "^", "(", ")", "."}

\* not ocr_text or ocr_text.isspace()
IsBlank(s) == Len(s) = 0 \/ IsSpaceStr(s)

\* total_non_whitespace_chars and cjk_char_count of the counting loop.
NonWhitespaceCount(s) == Cardinality({ i \in 1..Len(s) : ~IsSpace(s[i]) })
CjkCount(s) ==
    Cardinality({ i \in 1..Len(s) : ~IsSpace(s[i]) /\ IsCjk(s[i]) })

\* The guard of the division cjk_char_count / total_non_whitespace_chars.
CjkRatioComputed(s) == NonWhitespaceCount(s) > 5

\* A mutant of the CJK check: the guard asks for more than 6 characters.
CjkVerdictOffByOne(s) ==
    IF ~(NonWhitespaceCount(s) > 6) THEN "skip"
    ELSE IF NonWhitespaceCount(s) = 0 THEN "fault"
    ELSE IF 2 * CjkCount(s) > NonWhitespaceCount(s) THEN "dominant"
    ELSE "not_dominant"

\* cjk_ratio > 0.5, with cjk_ratio = cjk_char_count / total: a division by
\* zero raises ZeroDivisionError, which is the value "fault" here.
CjkVerdict(s) ==
    IF ~CjkRatioComputed(s) THEN "skip"
    ELSE IF NonWhitespaceCount(s) = 0 THEN "fault"
    ELSE IF 2 * CjkCount(s) > NonWhitespaceCount(s) THEN "dominant"
    ELSE "not_dominant"

HasBadChar(s) == \E i \in 1..Len(s) : s[i] \in very_bad_chars

\* lower_ocr_text.endswith('?') or lower_ocr_text.endswith("?)")
EndsWithQuestionVariant(lo) == EndsWith(lo, <<"?">>) \/ EndsWith(lo, <<"?", ")">>)

\* The early filter for text holding a very bad character.
BadCharFilter(lo) ==
    LET is_question_like_despite_bad_chars ==
            IF EndsWithQuestionVariant(lo) THEN TRUE
            ELSE FirstWord(lo) \in question_starters
    IN  IF is_question_like_despite_bad_chars THEN "text" ELSE "visual"

has_equals_sign(s) == \E i \in 1..Len(s) : s[i] = "="
has_math_operators(s) == \E i \in 1..Len(s) : s[i] \in math_operators
has_digits(s) == \E i \in 1..Len(s) : IsDigit(s[i])
has_alpha(s) == \E i \in 1..Len(s) : IsAlpha(s[i])
num_alpha_chars(s) == Cardinality({ i \in 1..Len(s) : IsAlpha(s[i]) })
num_math_symbols(s) == Cardinality({ i \in 1..Len(s) : IsMathSymbol(s[i]) })

\* is_definitely_question
IsDefinitelyQuestion(s) ==
    LET lo == Lower(s)
        first_word == FirstWord(lo)
    IN  \/ EndsWithQuestionVariant(lo)
        \/ /\ first_word \in question_starters
           /\ ~(first_word = <<"s", "o", "l", "v", "e">> /\ has_equals_sign(lo))

\* The explicit math phrase rule.
ExplicitMathRule(s) ==
    /\ \E ph \in explicit_math_phrases : Contains(Lower(s), ph)
    /\ ~HasBadChar(Lower(s))

\* A mutant of the structure rule: an equality sign is enough, without an
\* operator.
StructuralMathRuleEqualsOnly(s) ==
    LET first_word == FirstWord(Lower(s))
        solve == <<"s", "o", "l", "v", "e">>
    IN  /\ \/ has_equals_sign(s)
           \/ (first_word = solve /\ has_math_operators(s)
                 /\ (has_digits(s) \/ has_alpha(s)))
        /\ \/ 10 * num_math_symbols(s) > 3 * num_alpha_chars(s)
           \/ num_alpha_chars(s) < 10
           \/ first_word = solve
        /\ ~HasBadChar(Lower(s))

\* The general keyword and structure rule.
StructuralMathRule(s) ==
    LET first_word == FirstWord(Lower(s))
        solve == <<"s", "o", "l", "v", "e">>
    IN  /\ \/ (has_equals_sign(s) /\ has_math_operators(s))
           \/ (first_word = solve /\ has_math_operators(s)
                 /\ (has_digits(s) \/ has_alpha(s)))
        /\ \/ 10 * num_math_symbols(s) > 3 * num_alpha_chars(s)
           \/ num_alpha_chars(s) < 10
           \/ first_word = solve
        /\ ~HasBadChar(Lower(s))

\* The pure arithmetic rule.
PureArithmeticRule(s) ==
    LET is_pure_arithmetic ==
            /\ has_digits(s) /\ has_math_operators(s)
            /\ \A i \in 1..Len(s) : s[i] \in valid_arithmetic_chars
    IN  /\ is_pure_arithmetic /\ Len(Strip(s)) > 0
        /\ has_math_operators(s)
        /\ ~HasBadChar(Lower(s))

\* A mutant of the last attempt at "math": it reuses the test of the pure
\* arithmetic rule, which allows no whitespace but the space.
LastMathCheckPureOnly(s) ==
    /\ has_math_operators(s) /\ has_digits(s) /\ ~HasBadChar(Lower(s))
    /\ \A i \in 1..Len(s) : s[i] \in valid_arithmetic_chars

\* has_math_operators and has_digits, and no very bad character: the last
\* attempt at "math" of the two fallbacks.
LastMathCheck(s) == has_math_operators(s) /\ has_digits(s) /\ ~HasBadChar(Lower(s))

\* A mutant of the rules after the question check: the fallback for short
\* text comes before the test for mostly alphabetic text.
MathAndFallbackRulesShortFirst(s) ==
    IF ExplicitMathRule(s) THEN "math"
    ELSE IF StructuralMathRule(s) THEN "math"
    ELSE IF PureArithmeticRule(s) THEN "math"
    ELSE IF Len(Strip(s)) < 15
         THEN (IF LastMathCheck(s) THEN "math" ELSE "visual")
    ELSE IF 2 * num_alpha_chars(s) > Len(s) /\ Len(s) > 10 THEN "text"
    ELSE IF has_digits(s) \/ has_alpha(s)
         THEN (IF LastMathCheck(s) THEN "math" ELSE "text")
    ELSE "visual"

\* The rules after the question check, from the explicit phrases down.
MathAndFallbackRules(s) ==
    IF ExplicitMathRule(s) THEN "math"
    ELSE IF StructuralMathRule(s) THEN "math"
    ELSE IF PureArithmeticRule(s) THEN "math"
    ELSE IF 2 * num_alpha_chars(s) > Len(s) /\ Len(s) > 10 THEN "text"
    ELSE IF Len(Strip(s)) < 15
         THEN (IF LastMathCheck(s) THEN "math" ELSE "visual")
    ELSE IF has_digits(s) \/ has_alpha(s)
         THEN (IF LastMathCheck(s) THEN "math" ELSE "text")
    ELSE "visual"

\* A mutant of determine_problem_type: the CJK ratio is computed first, for
\* every text, before the blank check and without the guard on the count.
DetermineProblemTypeRatioFirst(s) ==
    IF NonWhitespaceCount(s) = 0 THEN "fault"
    ELSE IF 2 * CjkCount(s) > NonWhitespaceCount(s) /\ NonWhitespaceCount(s) > 5
         THEN "text"
    ELSE IF HasBadChar(Lower(s)) THEN BadCharFilter(Lower(s))
    ELSE IF IsDefinitelyQuestion(s) THEN "text"
    ELSE MathAndFallbackRules(s)

\* A mutant of determine_problem_type: the question check comes after the
\* explicit phrase rule and the structure rule instead of before them.
DetermineProblemTypeMathFirst(s) ==
    IF IsBlank(s) THEN "visual"
    ELSE IF CjkVerdict(s) = "fault" THEN "fault"
    ELSE IF CjkVerdict(s) = "dominant" THEN "text"
    ELSE IF HasBadChar(Lower(s)) THEN BadCharFilter(Lower(s))
    ELSE IF ExplicitMathRule(s) THEN "math"
    ELSE IF StructuralMathRule(s) THEN "math"
    ELSE IF IsDefinitelyQuestion(s) THEN "text"
    ELSE MathAndFallbackRules(s)

\* A mutant of determine_problem_type: the early filter for very bad
\* characters is left out.
DetermineProblemTypeNoFilter(s) ==
    IF IsBlank(s) THEN "visual"
    ELSE IF CjkVerdict(s) = "fault" THEN "fault"
    ELSE IF CjkVerdict(s) = "dominant" THEN "text"
    ELSE IF IsDefinitelyQuestion(s) THEN "text"
    ELSE MathAndFallbackRules(s)

\* determine_problem_type(ocr_text, image_obj): "math", "text" or "visual",
\* or "fault" for a ZeroDivisionError.
DetermineProblemType(s) ==
    IF IsBlank(s) THEN "visual"
    ELSE IF CjkVerdict(s) = "fault" THEN "fault"
    ELSE IF CjkVerdict(s) = "dominant" THEN "text"
    ELSE IF HasBadChar(Lower(s)) THEN BadCharFilter(Lower(s))
    ELSE IF IsDefinitelyQuestion(s) THEN "text"
    ELSE MathAndFallbackRules(s)

(***************************************************************************)
(* solve_equation, src/math_solver.py.                                     *)
(***************************************************************************)

\* s.replace(c, r) for a character c and a string r
RECURSIVE Replace(_, _, _)
Replace(s, c, r) ==
    IF s = <<>> THEN <<>>
    ELSE (IF Head(s) = c THEN r ELSE <<Head(s)>>) \o Replace(Tail(s), c, r)

\* ''.join(s.split())
RemoveWhitespace(s) == SelectSeq(s, LAMBDA ch : ~IsSpace(ch))

\* A mutant of the normalisation: '=' is replaced by '-' alone, and the
\* closing parenthesis is still appended.
NormalizeNoOpenParen(s) ==
    LET s1 == Replace(s, "x", <<"*", "x">>)
        s2 == Replace(s1, "X", <<"*", "X">>)
        s3 == Replace(s2, "=", <<"-">>) \o <<")">>
        s4 == Replace(s3, "^", <<"*", "*">>)
    IN  RemoveWhitespace(s4)

\* The rewriting of equation_str at the start of the try block: the four
\* replacements in the order of the code, then the removal of whitespace.
Normalize(s) ==
    LET s1 == Replace(s, "x", <<"*", "x">>)
        s2 == Replace(s1, "X", <<"*", "X">>)
        s3 == Replace(s2, "=", <<"-", "(">>) \o <<")">>
        s4 == Replace(s3, "^", <<"*", "*">>)
    IN  RemoveWhitespace(s4)

\* The nesting depth of parentheses after the first n characters of s.
RECURSIVE Depth(_, _)
Depth(s, n) ==
    IF n = 0 THEN 0
    ELSE Depth(s, n - 1)
           + (IF s[n] = "(" THEN 1 ELSE IF s[n] = ")" THEN -1 ELSE 0)

\* Every ')' closes an open '(' and every '(' is closed.
ParenBalanced(s) ==
    /\ \A n \in 1..Len(s) : Depth(s, n) >= 0
    /\ Depth(s, Len(s)) = 0

\* What sympify(equation_str) and solve(parsed_expr) can do.  Both are
\* library calls: a string whose parentheses do not match is rejected by
\* sympify with SympifyError; any other string is parsed or rejected, with
\* SympifyError or with another exception of the evaluation, and solve
\* returns a list, empty or not, or raises.
TryOutcomes(e) ==
    IF ~ParenBalanced(e) THEN {"SympifyError"}
    ELSE {"solutions", "no_solutions", "SympifyError", "NameError",
          "TypeError", "NotImplementedError"}

ExceptionKinds == {"SympifyError", "NameError", "TypeError", "NotImplementedError"}

\* isinstance(exc, cls) for the exception classes above; all of them derive
\* from Exception.
IsInstance(exc, cls) == exc = cls \/ cls = "Exception"

\* A mutant of the except clauses: the last clause, except Exception, is
\* missing.
except_clauses_no_catch_all == <<"SympifyError", "NameError">>

\* The except clauses of the try statement, in order.
except_clauses == <<"SympifyError", "NameError", "Exception">>

\* The clause that handles exc: the first one whose class exc is an instance
\* of, or 0 if there is none and the exception leaves the function.
HandlerIndex(exc) ==
    LET hs == { i \in 1..Len(except_clauses) : IsInstance(exc, except_clauses[i]) }
    IN  IF hs = {} THEN 0 ELSE SetMin(hs)

\* The parsing and solving functions solve_equation has called when its try
\* block ends with out: sympify(equation_str) at line 36 and, when that
\* returns, solve(parsed_expr) at line 37.  SympifyError and NameError come
\* out of sympify, the other exceptions out of solve.  The handler of
\* SympifyError, lines 39-64, calls nothing: its inner try block holds
\* comments and one return statement, and parse_mathematica, imported at
\* line 5, is called nowhere in the module.
ParserCalls(out) ==
    IF out \in {"SympifyError", "NameError"} THEN <<"sympify">>
    ELSE <<"sympify", "solve">>

None == [kind |-> "None", value |-> ""]
Str(tag) == [kind |-> "str", value |-> tag]
List(tag) == [kind |-> "list", value |-> tag]

\* The value solve_equation returns for an outcome of its try block; None
\* stands for no return, the exception having left the function.
SolveEquationReturn(out) ==
    IF out = "solutions" THEN List("solutions")
    ELSE IF out = "no_solutions" THEN List("empty")
    ELSE IF HandlerIndex(out) = 0 THEN None
    ELSE IF except_clauses[HandlerIndex(out)] = "SympifyError"
         THEN Str("standard_parser_failed_mathematica_may_fail_too")
    ELSE IF except_clauses[HandlerIndex(out)] = "NameError"
         THEN Str("undefined_variable")
    ELSE Str("unexpected_error")

(***************************************************************************)
(* The Gemini calls of src/ocr_module.py.                                  *)
(***************************************************************************)

\* The values API_KEY can be set to in ocr_module.py: empty, one of the two
\* placeholders, or a key.
ApiKeyValues == {"", "YOUR_GEMINI_API_KEY", "GEMINI_API_KEY", "a_key"}

\* API_KEY and API_KEY not in ["YOUR_GEMINI_API_KEY", "GEMINI_API_KEY"]
KeyConfigured(k) == k # "" /\ k \notin {"YOUR_GEMINI_API_KEY", "GEMINI_API_KEY"}

\* The prefix of every error message of ocr_module.py.
ErrorMarker == <<"u932F", "u8AA4", "uFF1A">>

\* The message returned when the key is not set.
KeyErrorMessage ==
    <<"u932F", "u8AA4", "uFF1A", "G", "e", "m", "i", "n", "i", " ", "A",
      "P", "I", " ", "u91D1", "u9470", "u672A", "u8A2D", "u5B9A",
      "u6216", "u4ECD", "u70BA", "u9810", "u8A2D", "u503C", "u3002",
      "u8ACB", "u5728", " ", "o", "c", "r", "_", "m", "o", "d", "u", "l",
      "e", ".", "p", "y", " ", "u4E2D", "u8A2D", "u5B9A", "u6709",
      "u6548", "u7684", " ", "A", "P", "I", "_", "K", "E", "Y", "u3002">>

\* The message extract_text_from_image returns on a timeout.
OcrTimeoutMessage ==
    <<"u932F", "u8AA4", "uFF1A", "u547C", "u53EB", " ", "G", "e", "m",
      "i", "n", "i", " ", "A", "P", "I", " ", "u6642", "u767C", "u751F",
      "u8D85", "u6642", "u3002">>

\* The message solve_text_problem_with_gemini returns on a timeout.
SolveTimeoutMessage ==
    <<"u932F", "u8AA4", "uFF1A", "u547C", "u53EB", " ", "G", "e", "m",
      "i", "n", "i", " ", "A", "P", "I", " ", "(", "s", "o", "l", "v",
      "e", "_", "t", "e", "x", "t", "_", "p", "r", "o", "b", "l", "e",
      "m", ")", " ", "u6642", "u767C", "u751F", "u8D85", "u6642",
      "u3002">>

(***************************************************************************)
(* The inputs.                                                             *)
(***************************************************************************)

\* The most fragments in a text given to determine_problem_type alone.
MaxFrags == 3
\* The most fragments in a text the OCR service returns to main.
MaxOcrFrags == 2
\* The most characters in a string given to solve_equation alone.
MaxEqLen == 4

\* The most fragments in a text given to answer_text_question alone.
MaxQuestionFrags == 2

Cjk4 == <<"u4E2D", "u3042", "uD55C", "u4E2D">>

\* The fragments the classifier's texts are made of.
Vocabulary ==
    { <<" ">>, <<"\t">>, <<"\n">>, <<"2">>, <<"+">>, <<"=">>, <<"@">>, <<":">>,
      <<"u00B0">>, <<"?">>, <<")">>, <<"x">>, <<"W", "h", "a", "t">>, <<"s", "o", "l", "v", "e">>,
      <<"f", "i", "n", "d", " ", "x">>,
      <<"a", "b", "c", "d", "e", "f", "g", "h", "i", "j", "k", "l">>,
      Cjk4,
      <<"(", "1", "0", "-", "3", ".", "5", ")", "*", "(", "4", "/", "2", ")",
        "^", "2">>,
      <<"(", "(", "(", "(", "(", "(", "(", "(", "(", "(", "(", "(", "(", "(",
        "(">> }

\* The fragments of the texts the OCR service reads from an image.
OcrVocabulary ==
    { <<" ">>, <<"2">>, <<"+">>, <<"=">>, <<"x">>, <<"@">>, <<"?">>,
      <<"W", "h", "a", "t">>, Cjk4 }

\* The fragments of the texts given to answer_text_question alone: seven
\* words, and 49 letters, so that one more fragment crosses the thresholds
\* of lines 38 and 60.
QuestionVocabulary ==
    { <<" ">>, <<"2">>, <<"2", "?">>, <<"W", "h", "a", "t">>, Cjk4,
      <<"a", " ", "b", " ", "c", " ", "d", " ", "e", " ", "f", " ", "g">>,
      <<" ", "h">>,
      <<"a", "a", "a", "a", "a", "a", "a", "a", "a", "a", "a", "a", "a",
      "a", "a", "a", "a", "a", "a", "a", "a", "a", "a", "a", "a", "a",
      "a", "a", "a", "a", "a", "a", "a", "a", "a", "a", "a", "a", "a",
      "a", "a", "a", "a", "a", "a", "a", "a", "a", "a">> }

\* The characters of the strings given to solve_equation alone.
EquationChars == {"2", "x", "X", "*", "-", "=", "^", " ", "(", ")"}

RECURSIVE Flatten(_)
Flatten(fs) == IF fs = <<>> THEN <<>> ELSE Head(fs) \o Flatten(Tail(fs))

TextsOf(voc, n) == { Flatten(fs) : fs \in UNION { [1..k -> voc] : k \in 0..n } }

Texts == TextsOf(Vocabulary, MaxFrags)
OcrTexts == TextsOf(OcrVocabulary, MaxOcrFrags)
Questions == TextsOf(QuestionVocabulary, MaxQuestionFrags)
EquationStrings == UNION { [1..k -> EquationChars] : k \in 0..MaxEqLen }

\* What extract_text_from_image(image_obj) can return: the message about
\* the key when the key is not configured; otherwise the text of the
\* response with its surrounding whitespace stripped, or an error message.
OcrResults(key) ==
    IF ~KeyConfigured(key) THEN {KeyErrorMessage}
    ELSE { Strip(t) : t \in OcrTexts } \cup {OcrTimeoutMessage}

\* What solve_text_problem_with_gemini(problem_text) can return.
GeminiResponses(key) ==
    IF ~KeyConfigured(key) THEN {KeyErrorMessage}
    ELSE { <<"P", "a", "r", "i", "s">>, <<>>, SolveTimeoutMessage }

(***************************************************************************)
(* The state.                                                              *)
(***************************************************************************)

VARIABLES
    pc,             \* where main is: "menu", "ocr", "classify", "override",
                    \* "solve", "result", "exit", "crashed"; or, for a call of
                    \* solve_equation alone, "call" and "returned"; or, for
                    \* a call of answer_text_question alone, "ask" and
                    \* "answered"
    NLP,            \* nlp_solver.NLP is not None
    API_KEY,        \* ocr_module.API_KEY
    choice,         \* the menu choice of this iteration
    img,            \* TRUE when img is an image, FALSE when it is None
    ocr_text,
    problem_type,
    user_override,
    solution,
    calls,          \* the functions called in this iteration, in order
    raw_equation,   \* the argument of the last call of solve_equation
    equation_str,   \* equation_str after the rewriting in solve_equation
    raised,         \* the exception raised in its try block, or "none"
    escaped,        \* the exception that left solve_equation, or "none"
    gemini_answer   \* the last response of solve_text_problem_with_gemini

vars ==
    << pc, NLP, API_KEY, choice, img, ocr_text, problem_type, user_override,
       solution, calls, raw_equation, equation_str, raised, escaped,
       gemini_answer >>

\* The variables of one iteration of main's loop before any is assigned.
FreshLocals ==
    /\ ocr_text = <<>>
    /\ problem_type = "none"
    /\ user_override = ""
    /\ solution = None
    /\ raw_equation = <<>>
    /\ equation_str = <<>>
    /\ raised = "none"
    /\ escaped = "none"
    /\ gemini_answer = <<>>

Init ==
    /\ pc = "menu"
    /\ NLP \in BOOLEAN
    /\ API_KEY \in ApiKeyValues
    /\ choice = ""
    /\ img = FALSE
    /\ calls = <<>>
    /\ FreshLocals

(***************************************************************************)
(* solve_equation and answer_text_question as steps of a caller.           *)
(***************************************************************************)

\* solve_equation(s): the rewriting, then sympify and solve, then the
\* except clauses.
SolveEquation(s) ==
    \E out \in TryOutcomes(Normalize(s)) :
        /\ calls' = calls \o <<"solve_equation">> \o ParserCalls(out)
        /\ raw_equation' = s
        /\ equation_str' = Normalize(s)
        /\ raised' = IF out \in ExceptionKinds THEN out ELSE "none"
        /\ escaped' = IF out \in ExceptionKinds /\ HandlerIndex(out) = 0
                      THEN out ELSE "none"
        /\ solution' = SolveEquationReturn(out)

\* contains_cjk of answer_text_question
ContainsCjk(s) == \E i \in 1..Len(s) : IsCjk(s[i])

\* A mutant of should_use_gemini: the test of the key at line 55 is missing.
ShouldUseGeminiNoKeyTest(s, key) ==
    \/ ContainsCjk(s)
    \/ (has_digits(s) /\ Len(s) > 50)
    \/ WordCount(s) > 7

\* should_use_gemini
ShouldUseGemini(s, key) ==
    /\ KeyConfigured(key)
    /\ \/ ContainsCjk(s)
       \/ (has_digits(s) /\ Len(s) > 50)
       \/ WordCount(s) > 7

\* The spaCy part of answer_text_question, reached when Gemini is not used
\* or has failed.
LocalNlp(called) ==
    IF ~NLP
    THEN /\ solution' = Str("error_nlp_not_loaded_gemini_failed_or_disabled")
         /\ calls' = calls \o called
    ELSE /\ solution' = Str("nlp_analysis")
         /\ calls' = calls \o called \o <<"NLP">>

\* A mutant of answer_text_question: the test of line 68 is missing, and
\* whatever Gemini responds is returned as its answer.
AnswerTextQuestionNoMarkerTest(s) ==
    IF ~NLP /\ API_KEY = ""
    THEN /\ solution' = Str("error_nlp_not_loaded_and_no_key")
         /\ calls' = calls \o <<"answer_text_question">>
         /\ UNCHANGED gemini_answer
    ELSE IF ShouldUseGemini(s, API_KEY)
    THEN \E ans \in GeminiResponses(API_KEY) :
            /\ gemini_answer' = ans
            /\ solution' = Str("gemini_answer")
            /\ calls' = calls \o <<"answer_text_question",
                                    "solve_text_problem_with_gemini">>
    ELSE /\ LocalNlp(<<"answer_text_question">>)
         /\ UNCHANGED gemini_answer

\* answer_text_question(s)
AnswerTextQuestion(s) ==
    IF ~NLP /\ API_KEY = ""
    THEN /\ solution' = Str("error_nlp_not_loaded_and_no_key")
         /\ calls' = calls \o <<"answer_text_question">>
         /\ UNCHANGED gemini_answer
    ELSE IF ShouldUseGemini(s, API_KEY)
    THEN \E ans \in GeminiResponses(API_KEY) :
            /\ gemini_answer' = ans
            /\ IF ~StartsWith(ans, ErrorMarker)
               THEN /\ solution' = Str("gemini_answer")
                    /\ calls' = calls \o <<"answer_text_question",
                                            "solve_text_problem_with_gemini">>
               ELSE LocalNlp(<<"answer_text_question",
                               "solve_text_problem_with_gemini">>)
    ELSE /\ LocalNlp(<<"answer_text_question">>)
         /\ UNCHANGED gemini_answer

(***************************************************************************)
(* main, src/專題.py: one action for each stretch of the loop between two   *)
(* inputs or calls of a service.                                           *)
(***************************************************************************)

\* The start of an iteration: img = None, and the other variables of the
\* iteration, each of which is assigned before it is read again.
StartIteration(c) ==
    /\ pc = "menu"
    /\ choice' = c
    /\ ocr_text' = <<>>
    /\ problem_type' = "none"
    /\ user_override' = ""
    /\ solution' = None
    /\ raw_equation' = <<>>
    /\ equation_str' = <<>>
    /\ raised' = "none"
    /\ escaped' = "none"
    /\ gemini_answer' = <<>>
    /\ UNCHANGED <<NLP, API_KEY>>

\* choice == '1': the path is asked for; a path that does not exist ends the
\* iteration, as does an image that load_image_from_file cannot open.
ChooseFile ==
    /\ StartIteration("1")
    /\ \E exists \in BOOLEAN, opened \in BOOLEAN :
          IF ~exists
          THEN /\ img' = FALSE
               /\ calls' = <<>>
               /\ pc' = "menu"
          ELSE /\ img' = opened
               /\ calls' = <<"load_image_from_file">>
               /\ pc' = IF opened THEN "ocr" ELSE "menu"

\* A mutant of the second choice: the test of line 203 for img being None is
\* missing.
ChoosePasteNoImageTest ==
    /\ StartIteration("2")
    /\ \E pasted \in BOOLEAN :
          /\ img' = pasted
          /\ calls' = <<"paste_image_from_clipboard">>
          /\ pc' = "ocr"

\* choice == '2'
ChoosePaste ==
    /\ StartIteration("2")
    /\ \E pasted \in BOOLEAN :
          /\ img' = pasted
          /\ calls' = <<"paste_image_from_clipboard">>
          /\ pc' = IF pasted THEN "ocr" ELSE "menu"

\* choice == '0'
ChooseExit ==
    /\ StartIteration("0")
    /\ img' = FALSE
    /\ calls' = <<>>
    /\ pc' = "exit"

\* any other choice
ChooseInvalid ==
    /\ StartIteration("other")
    /\ img' = FALSE
    /\ calls' = <<>>
    /\ pc' = "menu"

\* ocr_text = ocr_module.extract_text_from_image(img), and an empty result
\* replaced by "".
Ocr ==
    /\ pc = "ocr"
    /\ \E r \in OcrResults(API_KEY) :
          ocr_text' = IF Len(r) > 0 THEN r ELSE <<>>
    /\ calls' = Append(calls, "extract_text_from_image")
    /\ pc' = "classify"
    /\ UNCHANGED <<NLP, API_KEY, choice, img, problem_type, user_override,
                   solution, raw_equation, equation_str, raised, escaped,
                   gemini_answer>>

\* problem_type = determine_problem_type(ocr_text, img)
Classify ==
    /\ pc = "classify"
    /\ problem_type' = DetermineProblemType(ocr_text)
    /\ calls' = Append(calls, "determine_problem_type")
    /\ pc' = IF problem_type' = "fault" THEN "crashed" ELSE "override"
    /\ UNCHANGED <<NLP, API_KEY, choice, img, ocr_text, user_override,
                   solution, raw_equation, equation_str, raised, escaped,
                   gemini_answer>>

\* The answers to the override prompt, lower-cased: the three letters, Enter
\* alone, and anything else.
OverrideInputs == {"m", "t", "v", "", "n"}

\* A mutant of the override prompt: the answer is read and not acted on.
OverrideNotApplied ==
    /\ pc = "override"
    /\ \E u \in OverrideInputs : user_override' = u
    /\ pc' = "solve"
    /\ UNCHANGED <<NLP, API_KEY, choice, img, ocr_text, problem_type, solution,
                   calls, raw_equation, equation_str, raised, escaped,
                   gemini_answer>>

\* user_override = input(...).lower() and the three tests on it.
Override ==
    /\ pc = "override"
    /\ \E u \in OverrideInputs :
          /\ user_override' = u
          /\ problem_type' = IF u = "m" THEN "math"
                             ELSE IF u = "t" THEN "text"
                             ELSE IF u = "v" THEN "visual"
                             ELSE problem_type
    /\ pc' = "solve"
    /\ UNCHANGED <<NLP, API_KEY, choice, img, ocr_text, solution, calls,
                   raw_equation, equation_str, raised, escaped, gemini_answer>>

\* A mutant of the math branch: the test for blank text is missing.
SolveMathNoBlankTest ==
    /\ pc = "solve"
    /\ problem_type = "math"
    /\ SolveEquation(ocr_text)
    /\ pc' = IF escaped' # "none" THEN "crashed" ELSE "result"
    /\ UNCHANGED <<NLP, API_KEY, choice, img, ocr_text, problem_type,
                   user_override, gemini_answer>>

\* if problem_type == "math"
SolveMath ==
    /\ pc = "solve"
    /\ problem_type = "math"
    /\ IF IsBlank(ocr_text)
       THEN /\ solution' = None
            /\ pc' = "result"
            /\ UNCHANGED <<calls, raw_equation, equation_str, raised, escaped>>
       ELSE /\ SolveEquation(ocr_text)
            /\ pc' = IF escaped' # "none" THEN "crashed" ELSE "result"
    /\ UNCHANGED <<NLP, API_KEY, choice, img, ocr_text, problem_type,
                   user_override, gemini_answer>>

\* elif problem_type == "text"
SolveText ==
    /\ pc = "solve"
    /\ problem_type = "text"
    /\ IF IsBlank(ocr_text)
       THEN /\ solution' = None
            /\ UNCHANGED <<calls, gemini_answer>>
       ELSE IF ~NLP
       THEN /\ solution' = Str("nlp_model_not_loaded")
            /\ UNCHANGED <<calls, gemini_answer>>
       ELSE AnswerTextQuestion(ocr_text)
    /\ pc' = "result"
    /\ UNCHANGED <<NLP, API_KEY, choice, img, ocr_text, problem_type,
                   user_override, raw_equation, equation_str, raised, escaped>>

\* elif problem_type == "visual"
SolveVisual ==
    /\ pc = "solve"
    /\ problem_type = "visual"
    /\ solution' = Str("visual_analysis")
    /\ calls' = Append(calls, "solve_visual_puzzle")
    /\ pc' = "result"
    /\ UNCHANGED <<NLP, API_KEY, choice, img, ocr_text, problem_type,
                   user_override, raw_equation, equation_str, raised, escaped,
                   gemini_answer>>

\* The result is printed and the loop goes back to the menu.
Display ==
    /\ pc = "result"
    /\ pc' = "menu"
    /\ UNCHANGED <<NLP, API_KEY, choice, img, ocr_text, problem_type,
                   user_override, solution, calls, raw_equation, equation_str,
                   raised, escaped, gemini_answer>>

Next ==
    \/ ChooseFile
    \/ ChoosePaste
    \/ ChooseExit
    \/ ChooseInvalid
    \/ Ocr
    \/ Classify
    \/ Override
    \/ SolveMath
    \/ SolveText
    \/ SolveVisual
    \/ Display
    \* The last else of the dispatch, an unknown problem type, is never
    \* reached: problem_type is always one of the three.

Spec == Init /\ [][Next]_vars

(***************************************************************************)
(* determine_problem_type alone, on every text of Texts.                   *)
(***************************************************************************)

InitClassify ==
    /\ pc = "classify"
    /\ NLP = TRUE
    /\ API_KEY = "a_key"
    /\ choice = "1"
    /\ img = TRUE
    /\ calls = <<"load_image_from_file", "extract_text_from_image">>
    /\ ocr_text \in Texts
    /\ problem_type = "none"
    /\ user_override = ""
    /\ solution = None
    /\ raw_equation = <<>>
    /\ equation_str = <<>>
    /\ raised = "none"
    /\ escaped = "none"
    /\ gemini_answer = <<>>

NextClassify == Classify

SpecClassify == InitClassify /\ [][NextClassify]_vars

(***************************************************************************)
(* solve_equation alone, as its test cases call it, on every string of     *)
(* EquationStrings.                                                        *)
(***************************************************************************)

InitSolve ==
    /\ pc = "call"
    /\ NLP = TRUE
    /\ API_KEY = "a_key"
    /\ choice = ""
    /\ img = FALSE
    /\ calls = <<>>
    /\ ocr_text = <<>>
    /\ problem_type = "none"
    /\ user_override = ""
    /\ solution = None
    /\ raw_equation \in EquationStrings
    /\ equation_str = <<>>
    /\ raised = "none"
    /\ escaped = "none"
    /\ gemini_answer = <<>>

\* solution = solve_equation(processed_eq_str)
CallSolveEquation ==
    /\ pc = "call"
    /\ SolveEquation(raw_equation)
    /\ pc' = IF escaped' # "none" THEN "crashed" ELSE "returned"
    /\ UNCHANGED <<NLP, API_KEY, choice, img, ocr_text, problem_type,
                   user_override, gemini_answer>>

NextSolve == CallSolveEquation

SpecSolve == InitSolve /\ [][NextSolve]_vars

(***************************************************************************)
(* answer_text_question alone, on every text of Questions, with the model  *)
(* loaded or not and with every value of the key.                          *)
(***************************************************************************)

InitAnswer ==
    /\ pc = "ask"
    /\ NLP \in BOOLEAN
    /\ API_KEY \in ApiKeyValues
    /\ choice = ""
    /\ img = FALSE
    /\ calls = <<>>
    /\ ocr_text \in Questions
    /\ problem_type = "text"
    /\ user_override = ""
    /\ solution = None
    /\ raw_equation = <<>>
    /\ equation_str = <<>>
    /\ raised = "none"
    /\ escaped = "none"
    /\ gemini_answer = <<>>

\* answer = answer_text_question(q_text)
CallAnswerTextQuestion ==
    /\ pc = "ask"
    /\ AnswerTextQuestion(ocr_text)
    /\ pc' = "answered"
    /\ UNCHANGED <<NLP, API_KEY, choice, img, ocr_text, problem_type,
                   user_override, raw_equation, equation_str, raised, escaped>>

NextAnswer == CallAnswerTextQuestion

SpecAnswer == InitAnswer /\ [][NextAnswer]_vars

(***************************************************************************)
(* Properties of determine_problem_type, checked under SpecClassify.       *)
(***************************************************************************)

\* determine_problem_type has returned, or has failed.
Classified == pc \in {"override", "crashed"}

\* More than 5 non-whitespace characters, more than half of them CJK.
CjkDominant(s) ==
    NonWhitespaceCount(s) > 5 /\ 2 * CjkCount(s) > NonWhitespaceCount(s)

\* The text ends with '?' or '?)', or its first lower-cased word is a
\* question starter.
QuestionShaped(s) ==
    \/ EndsWith(s, <<"?">>)
    \/ EndsWith(s, <<"?", ")">>)
    \/ FirstWord(Lower(s)) \in question_starters

\* C1: a text with more than 5 non-whitespace characters, more than half of
\* them CJK, is classified "text", whatever else it contains.
C1_CjkDominantIsText ==
    (Classified /\ CjkDominant(ocr_text)) => problem_type = "text"

\* C1 witness: a CJK-dominant text with a digit and an operator has been
\* classified "text".
C1_Witness ==
    /\ Classified
    /\ CjkDominant(ocr_text)
    /\ has_digits(ocr_text) /\ has_math_operators(ocr_text)
    /\ problem_type = "text"

\* C2 as stated: a text with a forbidden symbol that is not question-shaped
\* is classified "visual".
C2_ForbiddenNotQuestionIsVisual ==
    (Classified /\ HasBadChar(ocr_text) /\ ~QuestionShaped(ocr_text))
        => problem_type = "visual"

\* C2 amended: a text with a forbidden symbol is never classified "math",
\* and it is classified "visual" when it is neither question-shaped nor
\* CJK-dominant; the CJK-dominant ones are classified "text" by the rule
\* that runs before the forbidden-symbol gate.
C2_ForbiddenGate ==
    (Classified /\ HasBadChar(ocr_text)) =>
        /\ problem_type # "math"
        /\ (~QuestionShaped(ocr_text) /\ ~CjkDominant(ocr_text))
              => problem_type = "visual"
        /\ CjkDominant(ocr_text) => problem_type = "text"

\* C2 witness: a long alphabetic string with one forbidden symbol has been
\* classified "visual", not "text" as the alphabetic-dominance rule would.
C2_Witness ==
    /\ Classified
    /\ HasBadChar(ocr_text) /\ ~QuestionShaped(ocr_text)
    /\ 2 * num_alpha_chars(ocr_text) > Len(ocr_text) /\ Len(ocr_text) > 10
    /\ ~CjkDominant(ocr_text)
    /\ problem_type = "visual"

\* The characters of the pattern ^\s*[\d\.\+\-\*/\^\(\)\s]+$.
ArithmeticOnly(s) ==
    \A i \in 1..Len(s) :
        \/ IsDigit(s[i]) \/ IsSpace(s[i])
        \/ s[i] \in {".", "+", "-", "*", "/", "^", "(", ")"}

\* C3: a text of digits, '.', operators, parentheses and whitespace with a
\* digit and an operator is classified "math", whatever its length.
C3_ArithmeticIsMath ==
    (Classified /\ ArithmeticOnly(ocr_text)
       /\ has_digits(ocr_text) /\ has_math_operators(ocr_text))
        => problem_type = "math"

\* C3 witness: such a text of 15 characters or more that holds a tab has
\* been classified "math".
C3_Witness ==
    /\ Classified
    /\ ArithmeticOnly(ocr_text)
    /\ has_digits(ocr_text) /\ has_math_operators(ocr_text)
    /\ \E i \in 1..Len(ocr_text) : ocr_text[i] = "\t"
    /\ Len(Strip(ocr_text)) >= 15
    /\ problem_type = "math"

\* C4: a text with no non-whitespace character is classified "visual", and
\* no text makes the CJK ratio divide by zero.
C4_BlankIsVisualNoFault ==
    /\ pc # "crashed"
    /\ problem_type # "fault"
    /\ (Classified /\ NonWhitespaceCount(ocr_text) = 0)
          => problem_type = "visual"

\* C4 witness: a non-empty text of whitespace only has been classified
\* "visual".
C4_Witness ==
    /\ Classified
    /\ Len(ocr_text) > 0 /\ NonWhitespaceCount(ocr_text) = 0
    /\ problem_type = "visual"

(***************************************************************************)
(* Properties of main, checked under Spec.                                 *)
(***************************************************************************)

Called(f) == \E i \in 1..Len(calls) : calls[i] = f

\* C5: while the OCR text of the request is blank, neither solve_equation
\* nor answer_text_question has been called in it, whatever the final type.
C5_BlankTextNoTextSolver ==
    IsBlank(ocr_text) =>
        ~Called("solve_equation") /\ ~Called("answer_text_question")

\* C5 witness: a request with empty OCR text whose type the user forced to
\* math has ended with no solution.
C5_Witness ==
    /\ pc = "result"
    /\ Called("extract_text_from_image")
    /\ IsBlank(ocr_text)
    /\ user_override = "m" /\ problem_type = "math"
    /\ solution = None

(***************************************************************************)
(* Properties of solve_equation, checked under SpecSolve.                  *)
(***************************************************************************)

Returned == pc \in {"returned", "crashed"}

\* x or X is not written directly after a digit, a letter or ')'.
NoImpliedMultiplication(s) ==
    \A i \in 1..Len(s) :
        (s[i] \in {"x", "X"} /\ i > 1) =>
            ~(IsDigit(s[i - 1]) \/ IsAlpha(s[i - 1]) \/ s[i - 1] = ")")

\* Already canonical: explicit multiplication, no '^' and no '='.
Canonical(s) ==
    /\ NoImpliedMultiplication(s)
    /\ \A i \in 1..Len(s) : s[i] \notin {"^", "="}

\* C6: the normalisation is idempotent, and a canonical input is changed by
\* nothing but the removal of whitespace.
C6_NormalizeIdempotent ==
    Returned =>
        /\ Normalize(equation_str) = equation_str
        /\ Canonical(raw_equation)
              => equation_str = RemoveWhitespace(raw_equation)

\* s with a '*' put between every digit and an x or X that follows it.
RECURSIVE InsertImplied(_)
InsertImplied(s) ==
    IF Len(s) < 2 THEN s
    ELSE IF IsDigit(s[1]) /\ s[2] \in {"x", "X"}
         THEN <<s[1], "*">> \o InsertImplied(Tail(s))
    ELSE <<s[1]>> \o InsertImplied(Tail(s))

DigitThenX(s) ==
    \E i \in 1..(Len(s) - 1) : IsDigit(s[i]) /\ s[i + 1] \in {"x", "X"}

\* C7: for an input without '=' in which a digit is directly followed by
\* x, the normalised string is the input with the '*' inserted (and '^'
\* and whitespace rewritten), and its parentheses match when the input's do.
C7_ImpliedMultiplicationOnly ==
    (Returned /\ ~has_equals_sign(raw_equation) /\ DigitThenX(raw_equation)
       /\ NoImpliedMultiplication(InsertImplied(raw_equation))) =>
        /\ equation_str =
             RemoveWhitespace(Replace(InsertImplied(raw_equation), "^", <<"*", "*">>))
        /\ ParenBalanced(raw_equation) => ParenBalanced(equation_str)

EqualsCount(s) == CountIn(s, {"="})
FirstEquals(s) == SetMin({ i \in 1..Len(s) : s[i] = "=" })
LeftSide(s) == SubSeq(s, 1, FirstEquals(s) - 1)
RightSide(s) == SubSeq(s, FirstEquals(s) + 1, Len(s))

\* One side of an equality after the rewrites other than that of '='.
Side(s) ==
    RemoveWhitespace(
        Replace(Replace(Replace(s, "x", <<"*", "x">>), "X", <<"*", "X">>),
                "^", <<"*", "*">>))

\* C8 as stated: A = B becomes (A)-(B), each side in its own parentheses.
C8_BothSidesEnclosed ==
    (Returned /\ EqualsCount(raw_equation) = 1) =>
        equation_str =
            <<"(">> \o Side(LeftSide(raw_equation)) \o <<")", "-", "(">>
                \o Side(RightSide(raw_equation)) \o <<")">>

\* C8 amended: every '=' becomes "-(" and one ')' is appended; with exactly
\* one '=', A = B becomes A-(B), the right-hand side alone enclosed, and
\* the parentheses of the result match when those of the input do.
C8_RightSideEnclosed ==
    (Returned /\ EqualsCount(raw_equation) >= 1) =>
        /\ CountIn(equation_str, {"("})
             = CountIn(raw_equation, {"("}) + EqualsCount(raw_equation)
        /\ CountIn(equation_str, {")"}) = CountIn(raw_equation, {")"}) + 1
        /\ EqualsCount(raw_equation) = 1 =>
             /\ equation_str =
                  Side(LeftSide(raw_equation)) \o <<"-", "(">>
                      \o Side(RightSide(raw_equation)) \o <<")">>
             /\ ParenBalanced(raw_equation) => ParenBalanced(equation_str)

\* C8 witness: "2x=2" has become "2*x-(2)".
C8_Witness ==
    /\ Returned
    /\ raw_equation = <<"2", "x", "=", "2">>
    /\ equation_str = <<"2", "*", "x", "-", "(", "2", ")">>

\* C9: without '=' in the input, the rewrite of the equality changes
\* nothing: the result has a ')' only where the input has one.
C9_NoEqualsNoRewrite ==
    (Returned /\ ~has_equals_sign(raw_equation)) =>
        CountIn(equation_str, {")"}) = CountIn(raw_equation, {")"})

\* C10: no exception leaves solve_equation; every exception of its try
\* block gives a message string, and any other result is a list.
C10_NoExceptionEscapes ==
    Returned =>
        /\ pc = "returned" /\ escaped = "none"
        /\ raised # "none" => solution.kind = "str"
        /\ raised = "none" => solution.kind = "list"

\* C10 witness: an exception that only the last except clause handles has
\* been returned as a message.
C10_Witness ==
    /\ pc = "returned"
    /\ raised \in {"TypeError", "NotImplementedError"}
    /\ solution = Str("unexpected_error")

\* C11: when sympify rejects the rewritten string, solve_equation returns its
\* message about the failure only after it has tried the alternate parser,
\* parse_mathematica: no message is returned for a parse error without that
\* call having been made.
C11_AlternateParserTried ==
    (pc = "returned" /\ raised = "SympifyError") =>
        /\ solution.kind = "str"
        /\ Called("parse_mathematica")

(***************************************************************************)
(* Properties of answer_text_question, checked under SpecAnswer.           *)
(***************************************************************************)

\* The call of solve_text_problem_with_gemini has been made and its response
\* begins with the error marker.
RemoteFailed ==
    /\ Called("solve_text_problem_with_gemini")
    /\ Len(gemini_answer) >= 3
    /\ SubSeq(gemini_answer, 1, 3) = <<"u932F", "u8AA4", "uFF1A">>

\* The last call made in the request.
LastCall == IF calls = <<>> THEN "none" ELSE calls[Len(calls)]

\* C12: a response of Gemini that begins with the error marker is never
\* returned as the Gemini answer: after it the local NLP analysis is what runs
\* next and gives the result, and when the NLP model is not loaded one error
\* string is returned and the model is not called.
C12_ErrorResponseFallsBack ==
    (pc = "answered" /\ RemoteFailed) =>
        /\ solution # Str("gemini_answer")
        /\ NLP => (LastCall = "NLP" /\ solution = Str("nlp_analysis"))
        /\ ~NLP => /\ ~Called("NLP")
                   /\ solution =
                         Str("error_nlp_not_loaded_gemini_failed_or_disabled")

\* C12 witness: Gemini was called for a text, failed with a timeout, and the
\* NLP model is not loaded.
C12_Witness ==
    /\ pc = "answered"
    /\ RemoteFailed
    /\ gemini_answer = SolveTimeoutMessage
    /\ ~NLP
    /\ solution = Str("error_nlp_not_loaded_gemini_failed_or_disabled")

\* A credential is present and is not one of the placeholders.
BackendConfigured == API_KEY \notin {"", "YOUR_GEMINI_API_KEY", "GEMINI_API_KEY"}

\* The text has a digit and more than 50 characters, or more than 7 words.
LongOrWordy(s) ==
    \/ (\E i \in 1..Len(s) : IsDigit(s[i])) /\ Len(s) > 50
    \/ WordCount(s) > 7

\* More than half of the non-whitespace characters are CJK: CJK-dominant in
\* the widest reading, without the classifier's guard on the length.
CjkMajority(s) == 2 * CjkCount(s) > NonWhitespaceCount(s)

\* C13 as stated: answer_text_question calls Gemini if and only if the
\* backend is configured and the text is CJK-dominant, or has a digit and
\* more than 50 characters, or has more than 7 words; when the backend is
\* not configured the call is never made, and with the NLP model loaded
\* no error comes of it.
C13_RemoteIffCjkDominant ==
    pc = "answered" =>
        /\ Called("solve_text_problem_with_gemini") <=>
              (BackendConfigured /\ (CjkMajority(ocr_text) \/ LongOrWordy(ocr_text)))
        /\ ~BackendConfigured =>
              /\ ~Called("solve_text_problem_with_gemini")
              /\ NLP => solution = Str("nlp_analysis")

\* C13 as amended: the same with (a) read as the text having at least one
\* CJK character, dominant or not.
C13_RemoteIffContainsCjk ==
    pc = "answered" =>
        /\ Called("solve_text_problem_with_gemini") <=>
              (BackendConfigured /\ (CjkCount(ocr_text) > 0 \/ LongOrWordy(ocr_text)))
        /\ ~BackendConfigured =>
              /\ ~Called("solve_text_problem_with_gemini")
              /\ NLP => solution = Str("nlp_analysis")

\* C13 witness: Gemini has been called for a text with CJK characters that
\* is not CJK-dominant, has no digit and has one word.
C13_Witness ==
    /\ pc = "answered"
    /\ Called("solve_text_problem_with_gemini")
    /\ CjkCount(ocr_text) > 0
    /\ ~CjkMajority(ocr_text)
    /\ ~LongOrWordy(ocr_text)

(***************************************************************************)
(* Properties of main, checked under Spec.                                 *)
(***************************************************************************)

\* The OCR service has answered in this request and its answer begins with
\* the error marker.
OcrFailed ==
    /\ Called("extract_text_from_image")
    /\ StartsWith(ocr_text, ErrorMarker)

\* C14: in a request of main where the OCR service has returned a string
\* that begins with the error marker, determine_problem_type is not applied
\* to it, and neither solve_equation nor answer_text_question receives it.
C14_OcrErrorNotClassified ==
    OcrFailed =>
        /\ ~Called("determine_problem_type")
        /\ ~Called("solve_equation")
        /\ ~Called("answer_text_question")

\* The text solver's branch of main has finished for a text that is not
\* blank.
TextRequestDone ==
    /\ pc = "result"
    /\ problem_type = "text"
    /\ ~IsBlank(ocr_text)

\* The heuristics of answer_text_question prefer Gemini for the text.
RemotePreferred(s) == CjkCount(s) > 0 \/ LongOrWordy(s)

\* One of the messages that say the NLP model is not loaded.
NlpUnavailableError ==
    /\ solution.kind = "str"
    /\ solution.value \in {"nlp_model_not_loaded",
                            "error_nlp_not_loaded_and_no_key",
                            "error_nlp_not_loaded_gemini_failed_or_disabled"}

\* C15: for a text problem with non-blank text and the NLP model not loaded,
\* a request made through main still reaches Gemini when the backend is
\* configured and the heuristics prefer it, and a message that the NLP model
\* is not loaded is the result only after the call of Gemini has failed or
\* when the text was not eligible for it.
C15_NlpMissingStillReachesRemote ==
    (TextRequestDone /\ ~NLP) =>
        /\ (BackendConfigured /\ RemotePreferred(ocr_text)) =>
               Called("solve_text_problem_with_gemini")
        /\ NlpUnavailableError =>
               \/ RemoteFailed
               \/ ~(BackendConfigured /\ RemotePreferred(ocr_text))

(***************************************************************************)
(* More properties of determine_problem_type, checked under SpecClassify.  *)
(***************************************************************************)

\* The text has a feature the math rules look for: an explicit math phrase, or
\* an equality sign and an operator, or a digit and an operator.
MathFeatured(s) ==
    \/ \E ph \in explicit_math_phrases : Contains(Lower(s), ph)
    \/ (\E i \in 1..Len(s) : s[i] = "=") /\ (\E i \in 1..Len(s) : s[i] \in math_operators)
    \/ (\E i \in 1..Len(s) : IsDigit(s[i])) /\ (\E i \in 1..Len(s) : s[i] \in math_operators)

\* C16: every non-blank text that ends with '?' or '?)', or whose first
\* lower-cased word is a question starter, is classified "text", also when
\* it has digits, operators, an equality sign or an explicit math phrase.
C16_QuestionBeforeMath ==
    (Classified /\ ~IsBlank(ocr_text) /\ QuestionShaped(ocr_text)) =>
        problem_type = "text"

\* C16 witness: a question-shaped text without forbidden symbols that the
\* math rules would have taken has been classified "text".
C16_Witness ==
    /\ Classified
    /\ QuestionShaped(ocr_text)
    /\ MathFeatured(ocr_text)
    /\ ~HasBadChar(ocr_text)
    /\ ~CjkDominant(ocr_text)
    /\ problem_type = "text"

\* The text is not decided by the first four rules: it is not blank, not
\* CJK-dominant, has no forbidden symbol and is not question-shaped.
PastQuestionRule(s) ==
    /\ ~IsBlank(s)
    /\ ~CjkDominant(s)
    /\ ~(\E i \in 1..Len(s) : s[i] \in {"u00B0", "@", ":", "$"})
    /\ ~QuestionShaped(s)

\* The outcome of the first matching rule of rules 5 to 11, in the order
\* they are listed in.
CascadeOutcome(s) ==
    LET word1 == FirstWord(Lower(s))
        solve == <<"s", "o", "l", "v", "e">>
        equals == \E i \in 1..Len(s) : s[i] = "="
        operator == \E i \in 1..Len(s) : s[i] \in {"+", "-", "*", "/", "^"}
        digit == \E i \in 1..Len(s) : IsDigit(s[i])
        letter == \E i \in 1..Len(s) : IsAlpha(s[i])
        letters == Cardinality({ i \in 1..Len(s) : IsAlpha(s[i]) })
        symbols == Cardinality({ i \in 1..Len(s) :
                      IsDigit(s[i]) \/ s[i] \in {"+", "-", "*", "/", "=", "^", "(", ")", "."} })
        phrase == \E ph \in explicit_math_phrases : Contains(Lower(s), ph)
        structure ==
            /\ (equals /\ operator) \/ (word1 = solve /\ operator /\ (digit \/ letter))
            /\ 10 * symbols > 3 * letters \/ letters < 10 \/ word1 = solve
        arithmetic ==
            /\ digit /\ operator
            /\ \A i \in 1..Len(s) :
                  IsDigit(s[i]) \/ s[i] \in {"+", "-", "*", "/", "^", "(", ")", ".", " "}
    IN  IF phrase THEN "math"
        ELSE IF structure THEN "math"
        ELSE IF arithmetic THEN "math"
        ELSE IF 2 * letters > Len(s) /\ Len(s) > 10 THEN "text"
        ELSE IF Len(Strip(s)) < 15
             THEN (IF operator /\ digit THEN "math" ELSE "visual")
        ELSE IF digit \/ letter
             THEN (IF operator /\ digit THEN "math" ELSE "text")
        ELSE "visual"

\* C17: a text that the first four rules do not decide gets the outcome of
\* the first matching rule of rules 5 to 11 taken in the listed order:
\* explicit phrase, structure, pure arithmetic, mostly letters, short text,
\* any digit or letter, and "visual" at the end.
C17_CascadeInOrder ==
    (Classified /\ PastQuestionRule(ocr_text)) =>
        problem_type = CascadeOutcome(ocr_text)

\* C17 witness: a text of more than 10 characters, mostly letters, with a
\* digit and an operator, is "text" by the rule for letters, which comes
\* before the fallback for short text that would have made it "math".
C17_Witness ==
    /\ Classified
    /\ PastQuestionRule(ocr_text)
    /\ 2 * num_alpha_chars(ocr_text) > Len(ocr_text)
    /\ Len(ocr_text) > 10
    /\ Len(Strip(ocr_text)) < 15
    /\ has_digits(ocr_text) /\ has_math_operators(ocr_text)
    /\ problem_type = "text"

\* The text has one of the operator characters + - * / ^.
HasOperator(s) == \E i \in 1..Len(s) : s[i] \in {"+", "-", "*", "/", "^"}

\* The text has one of the explicit math phrases.
HasMathPhrase(s) == \E ph \in explicit_math_phrases : Contains(Lower(s), ph)

\* C18: determine_problem_type returns "math" only for a text that has an
\* operator character or an explicit math phrase; without both, no digits,
\* letters or equality signs make a text "math".
C18_MathNeedsOperatorOrPhrase ==
    (Classified /\ problem_type = "math") =>
        (HasOperator(ocr_text) \/ HasMathPhrase(ocr_text))

\* C18 witness: a text with a digit, a letter and an equality sign, but no
\* operator and no math phrase, has been classified, and not as "math".
C18_Witness ==
    /\ Classified
    /\ has_digits(ocr_text) /\ has_alpha(ocr_text) /\ has_equals_sign(ocr_text)
    /\ ~HasOperator(ocr_text) /\ ~HasMathPhrase(ocr_text)
    /\ ~QuestionShaped(ocr_text)
    /\ problem_type \in {"text", "visual"}

(***************************************************************************)
(* More properties of main, checked under Spec.                            *)
(***************************************************************************)

Solvers == {"solve_equation", "answer_text_question", "solve_visual_puzzle"}

\* The positions in calls of the calls of a solver.
SolverCalls == { i \in 1..Len(calls) : calls[i] \in Solvers }

\* The solver main calls for a problem type.
SolverOf(t) ==
    IF t = "math" THEN "solve_equation"
    ELSE IF t = "text" THEN "answer_text_question"
    ELSE "solve_visual_puzzle"

\* The final type of the request: the override when it is m, t or v, and
\* what the classifier returns for the OCR text otherwise.
FinalType ==
    IF user_override = "m" THEN "math"
    ELSE IF user_override = "t" THEN "text"
    ELSE IF user_override = "v" THEN "visual"
    ELSE DetermineProblemType(ocr_text)

\* C19: in every request of main at most one solver is called, and it is the
\* solver of the final type, the final type being the override when the user
\* enters m, t or v and the classifier's result otherwise; the classifier has
\* run when the override prompt is shown, and a solver is called only after
\* the prompt has been answered.
C19_OneSolverOfFinalType ==
    /\ Cardinality(SolverCalls) <= 1
    /\ pc \in {"override", "solve"} =>
          (Called("determine_problem_type") /\ SolverCalls = {})
    /\ pc \in {"solve", "result"} => problem_type = FinalType
    /\ \A i \in SolverCalls :
          /\ pc \in {"result", "menu"}
          /\ calls[i] = SolverOf(FinalType)
          /\ \E j \in 1..(i - 1) : calls[j] = "determine_problem_type"

\* C19 witness: the classifier said "text", the user entered m, and the math
\* solver is the one solver that has been called.
C19_Witness ==
    /\ pc = "result"
    /\ user_override = "m"
    /\ DetermineProblemType(ocr_text) = "text"
    /\ Called("solve_equation")
    /\ ~Called("answer_text_question")
    /\ ~Called("solve_visual_puzzle")

\* C20: in an iteration of the loop in which no image was obtained, the OCR
\* service, the classifier and the three solvers are not called and the loop
\* is back at the menu; the loop ends only when the user chooses 0.
C20_NoImageNoWork ==
    /\ ~img =>
          /\ pc \in {"menu", "exit"}
          /\ ~Called("extract_text_from_image")
          /\ ~Called("determine_problem_type")
          /\ SolverCalls = {}
    /\ pc \notin {"menu", "ocr", "classify", "override", "solve", "result"} =>
          (pc = "exit" /\ choice = "0")

\* C20 witness: the user gave the path of a file that exists and
\* load_image_from_file returned None; the loop is back at the menu.
C20_Witness ==
    /\ pc = "menu"
    /\ choice = "1"
    /\ ~img
    /\ calls = <<"load_image_from_file">>

====
